---- MODULE Spec2Model ----
(***************************************************************************)
(* Model of financial_functions.py: the interest_rate class (rate          *)
(* conversion), the debt class (payment ledger, balance and status) and    *)
(* the Bonds class (prices and duration).                                  *)
(*                                                                         *)
(* Numbers.  Python floats are modelled by exact rationals [n, d] in       *)
(* lowest terms with d > 0.  A power with a fractional exponent is taken   *)
(* through a root looked up in Roots, so the model's inputs are drawn      *)
(* where the source's powers are rational.                                 *)
(* Dates are day numbers; a date string 'Mon DD YYYY' and the date it      *)
(* parses to are the same day number.                                      *)
(*                                                                         *)
(* The ledger's daily discount rate, discount_rate.rate('daily'), is a     *)
(* 28th, 91st or 182nd root of the fetched CETES rate; the model holds its *)
(* value, drawn from DailyDiscounts, instead of the CETES rate.            *)
(*                                                                         *)
(* A query that changes no attribute (actualFinalDebt, daysToGo, and the   *)
(* value status, dirtyPrice, cleanPrice, getDuration and getSensibility    *)
(* return) is an operator evaluated on the state; the attributes a method  *)
(* writes are its action.                                                  *)
(***************************************************************************)
EXTENDS Integers, Sequences, FiniteSets, TLC

\* ------------------------------------------------------------------ bounds
MaxDay == 2
MaxPayments == 2
MaxInvalid == 2
MaxBonds == 2
MaxTime2Maturity == 4
MaxConversions == 2

Days == 0..MaxDay
Ids == 1..MaxPayments

\* ------------------------------------------------------- rational numbers
Abs(x) == IF x < 0 THEN -x ELSE x

RECURSIVE GCD(_, _)
GCD(a, b) == IF b = 0 THEN a ELSE GCD(b, a % b)

Rat(n, d) ==
    LET g == GCD(Abs(n), Abs(d))
        s == IF d < 0 THEN -1 ELSE 1
    IN  [n |-> (s * n) \div g, d |-> (s * d) \div g]

Zero == Rat(0, 1)
One == Rat(1, 1)
RInt(k) == Rat(k, 1)
RAdd(a, b) == Rat(a.n * b.d + b.n * a.d, a.d * b.d)
RSub(a, b) == Rat(a.n * b.d - b.n * a.d, a.d * b.d)
RMul(a, b) == Rat(a.n * b.n, a.d * b.d)
RDiv(a, b) == Rat(a.n * b.d, a.d * b.n)
RLt(a, b) == a.n * b.d < b.n * a.d
RLe(a, b) == a.n * b.d <= b.n * a.d

RECURSIVE RPowNat(_, _)
RPowNat(a, k) == IF k = 0 THEN One ELSE RMul(a, RPowNat(a, k - 1))

\* a ** k for an integer k (Python's float power with a whole exponent)
RPow(a, k) == IF k >= 0 THEN RPowNat(a, k) ELSE RDiv(One, RPowNat(a, -k))

\* x ** e for a rational exponent e, where x is a whole power of a root
Roots == {Rat(a, b) : a \in 1..9, b \in {1, 2, 4}}
RPowFrac(x, e) ==
    IF e.d = 1 THEN RPow(x, e.n)
    ELSE LET r == CHOOSE r \in Roots : RPowNat(r, e.d) = x
         IN  RPow(r, e.n)

\* x ** e is a rational the model can name
hasRoot(x, e) == e.d = 1 \/ \E r \in Roots : RPowNat(r, e.d) = x

\* round(x, 2): to the nearest hundredth, ties to even
Round2(x) ==
    LET num == x.n * 100
        q == num \div x.d
        r == num % x.d
        up == \/ 2 * r > x.d
              \/ (2 * r = x.d /\ q % 2 = 1)
    IN  Rat(IF up THEN q + 1 ELSE q, 100)

\* ------------------------------------------------ basic financial functions
futureValue(capital, interest, periods) ==
    RMul(capital, RPow(RAdd(One, interest), periods))

presetValue(capital, interest, periods) ==
    RMul(capital, RPow(RAdd(One, interest), -periods))

\* equivalentRate, were cap / new_cap the floor division of two integers
equivalentRateFloorDiv(rate, cap, new_cap) ==
    RMul(RInt(new_cap),
         RSub(RPow(RAdd(One, RDiv(rate, RInt(cap))), cap \div new_cap), One))

\* new_cap * ((1 + rate / cap) ** (cap / new_cap) - 1)
equivalentRate(rate, cap, new_cap) ==
    RMul(RInt(new_cap),
         RSub(RPowFrac(RAdd(One, RDiv(rate, RInt(cap))), Rat(cap, new_cap)),
              One))

\* interest_rate.annualRate and interest_rate.rate for an integer cap_desc
annualRate(reference_rate, cap_desc) ==
    equivalentRate(reference_rate.rate, reference_rate.cap, cap_desc)

rate(reference_rate, cap_desc) ==
    RDiv(annualRate(reference_rate, cap_desc), RInt(cap_desc))

\* ------------------------------------------------------------ debt: state
VARIABLES
    now,               \* the clock: the day datetime.now() returns
    final_date,        \* self.final_date
    actual_date,       \* self.actual_date, the clock read by __init__
    capital,           \* self.capital
    reference_rate,    \* self.reference_rate
    final_capital,     \* self.final_capital
    daily_discount,    \* the value of self.discountRate('daily')
    payments,          \* self.payments
    invalid_payments,  \* self.invalid_payments
    debt_status,       \* self.debt_status, "unset" while the attribute is missing
    coupon_dicts,      \* the dict objects passed as coupons, by identity
    bonds,             \* the Bonds objects constructed so far
    rate_objects       \* the reference_rate of each interest_rate object built

debtVars == <<now, final_date, actual_date, capital, reference_rate,
              final_capital, daily_discount, payments, invalid_payments,
              debt_status>>

bondVars == <<coupon_dicts, bonds>>

rateVars == <<rate_objects>>

vars == <<debtVars, bondVars, rateVars>>

\* inputs of the constructor and of registerPayment
Capitals == {RInt(1)}
ReferenceRates == {[rate |-> RInt(360), cap |-> 360]}
DailyDiscounts == {RInt(1), Rat(-1, 2)}
Amounts == {RInt(2)}
FinalDates == {1}

Range(s) == {s[k] : k \in DOMAIN s}

\* debt.__init__
DebtInit ==
    /\ now \in Days
    /\ actual_date = now
    /\ final_date \in FinalDates
    /\ capital \in Capitals
    /\ reference_rate \in ReferenceRates
    /\ \E initial_date \in Days :
          /\ initial_date <= final_date
          /\ final_capital =
                 Round2(futureValue(capital, rate(reference_rate, 360),
                                    final_date - initial_date))
    /\ daily_discount \in DailyDiscounts
    /\ payments = <<>>
    /\ invalid_payments = <<>>
    /\ debt_status = "unset"

\* debt.daysToGo(ref_date) and debt.daysToGo() with the default ref_date
daysToGo(ref_date) == final_date - ref_date

daysToGoDefault == daysToGo(actual_date)

\* debt.discountRate('daily')
discountRate == daily_discount

\* total, were the loop not to skip the payments flagged invalid
RECURSIVE totalAll(_, _)
totalAll(pays, k) ==
    IF k = 0 THEN Zero
    ELSE RAdd(totalAll(pays, k - 1),
              futureValue(pays[k].amount, discountRate, daysToGo(pays[k].date)))

\* the loop of debt.actualFinalDebt over payments[1..k]
RECURSIVE total(_, _)
total(pays, k) ==
    IF k = 0 THEN Zero
    ELSE IF ~pays[k].valid THEN total(pays, k - 1)
    ELSE RAdd(total(pays, k - 1),
              futureValue(pays[k].amount, discountRate, daysToGo(pays[k].date)))

\* actualFinalDebt, were a ledger without payments to owe nothing
actualFinalDebtOfEmptyZero(pays) ==
    IF Len(pays) = 0 THEN Zero
    ELSE LET actual_debt == RSub(final_capital, total(pays, Len(pays)))
         IN  IF RLt(actual_debt, Zero) THEN Zero ELSE actual_debt

\* actualFinalDebt, were the difference returned as it is
actualFinalDebtOfNoFloor(pays) ==
    IF Len(pays) = 0 THEN final_capital
    ELSE RSub(final_capital, total(pays, Len(pays)))

\* debt.actualFinalDebt on a payment list
actualFinalDebtOf(pays) ==
    IF Len(pays) = 0 THEN final_capital
    ELSE LET actual_debt == RSub(final_capital, total(pays, Len(pays)))
         IN  IF RLt(actual_debt, Zero) THEN Zero ELSE actual_debt

actualFinalDebt == actualFinalDebtOf(payments)

\* newId, were it to count the payments still valid
newIdCountValid(pays) ==
    Cardinality({k \in DOMAIN pays : pays[k].valid}) + 1

\* the id debt.registerPayment gives the next payment
newId(pays) == IF Len(pays) = 0 THEN 1 ELSE pays[Len(pays)].id + 1

\* debt.registerPayment on a payment list
registerPaymentOp(pays, amount, date) ==
    Append(pays, [id |-> newId(pays), date |-> date, amount |-> amount,
                  valid |-> TRUE])

\* debt.invalidPayments on (payments, invalid_payments)
invalidPaymentsOp(pays, inv, id) ==
    LET inv2 == Append(inv, id)
    IN  [payments |->
             [k \in 1..Len(pays) |->
                 IF pays[k].id \in Range(inv2)
                 THEN [pays[k] EXCEPT !.valid = FALSE]
                 ELSE pays[k]],
         invalid_payments |-> inv2]

\* deleteInvalidPayment, were it to forget the payment's flag
deleteInvalidPaymentListOnly(pays, inv, id) ==
    [payments |-> pays,
     invalid_payments |-> SelectSeq(inv, LAMBDA i : i # id)]

\* debt.deleteInvalidPayment on (payments, invalid_payments)
deleteInvalidPaymentOp(pays, inv, id) ==
    [payments |->
         [k \in 1..Len(pays) |->
             IF pays[k].id = id
             THEN [pays[k] EXCEPT !.valid = TRUE]
             ELSE pays[k]],
     invalid_payments |-> SelectSeq(inv, LAMBDA i : i # id)]

\* statusResult, were Active to be tested with debt >= 0
statusResultGe(prev, debt, flag) ==
    LET s1 == IF debt = Zero THEN "Done." ELSE prev
        s2 == IF flag < 0 /\ RLt(Zero, debt) THEN "Overdue." ELSE s1
        s3 == IF flag > 0 /\ RLe(Zero, debt) THEN "Active." ELSE s2
    IN  s3

\* debt.status: the value left in self.debt_status, given the one before
statusResult(prev, debt, flag) ==
    LET s1 == IF debt = Zero THEN "Done." ELSE prev
        s2 == IF flag < 0 /\ RLt(Zero, debt) THEN "Overdue." ELSE s1
        s3 == IF flag > 0 /\ RLt(Zero, debt) THEN "Active." ELSE s2
    IN  s3

\* reading self.debt_status raises AttributeError while it was never set
statusReturn(prev, debt, flag) ==
    LET s == statusResult(prev, debt, flag)
    IN  IF s = "unset" THEN "AttributeError" ELSE s

\* --------------------------------------------------------- debt: actions
ledgerFrame ==
    UNCHANGED <<final_date, actual_date, capital, reference_rate,
                final_capital, daily_discount, bondVars, rateVars>>

\* the clock advances one day
Tick ==
    /\ now < MaxDay
    /\ now' = now + 1
    /\ ledgerFrame
    /\ UNCHANGED <<payments, invalid_payments, debt_status>>

registerPayment ==
    /\ Len(payments) < MaxPayments
    /\ \E amount \in Amounts, date \in Days, isNow \in BOOLEAN :
          payments' = registerPaymentOp(payments, amount,
                                        IF isNow THEN now ELSE date)
    /\ ledgerFrame
    /\ UNCHANGED <<now, invalid_payments, debt_status>>

invalidPayments ==
    /\ Len(invalid_payments) < MaxInvalid
    /\ \E id \in Ids :
          LET r == invalidPaymentsOp(payments, invalid_payments, id)
          IN  /\ payments' = r.payments
              /\ invalid_payments' = r.invalid_payments
    /\ ledgerFrame
    /\ UNCHANGED <<now, debt_status>>

deleteInvalidPayment ==
    /\ \E id \in Ids :
          LET r == deleteInvalidPaymentOp(payments, invalid_payments, id)
          IN  /\ payments' = r.payments
              /\ invalid_payments' = r.invalid_payments
    /\ ledgerFrame
    /\ UNCHANGED <<now, debt_status>>

resetInvalidPayments ==
    /\ invalid_payments' = <<>>
    /\ ledgerFrame
    /\ UNCHANGED <<now, payments, debt_status>>

resetPayments ==
    /\ payments' = <<>>
    /\ ledgerFrame
    /\ UNCHANGED <<now, invalid_payments, debt_status>>

status ==
    /\ debt_status' = statusResult(debt_status, actualFinalDebt, daysToGoDefault)
    /\ ledgerFrame
    /\ UNCHANGED <<now, payments, invalid_payments>>

\* --------------------------------------------------------- Bonds: state
\* An attribute an object does not have yet is <<>>; one it has is <<value>>.
Unset == <<>>
Set(v) == <<v>>
Ok(v) == <<"ok", v>>
AttributeError == <<"AttributeError">>
ZeroDivisionError == <<"ZeroDivisionError">>

\* constructor inputs
Nominals == {RInt(360), RInt(720)}
MarketRates == {RInt(540), RInt(225)}
Times == 0..MaxTime2Maturity
DictIds == {"default", "own"}

\* the dict objects before any constructor ran: the default argument of
\* Bonds.__init__ and a dict the caller owns
InitialDicts ==
    [d \in DictIds |->
        [delta_periods |-> 2,
         interest_rate |-> IF d = "default" THEN Rat(1, 2) ELSE One,
         value |-> Unset, pending_coupons |-> Unset,
         integer_coupons |-> Unset, float_coupons |-> Unset]]

\* int(x) for x >= 0
IntOf(x) == x.n \div x.d

\* the keys Bonds.__init__ writes into the coupons dict
enrich(c, nominal_value, time2maturity) ==
    LET value == RDiv(RMul(RMul(nominal_value, RInt(c.delta_periods)),
                           c.interest_rate), RInt(360))
        pending == Rat(time2maturity, c.delta_periods)
        integer == IntOf(pending)
    IN  [c EXCEPT !.value = Set(value),
                  !.pending_coupons = Set(pending),
                  !.integer_coupons = Set(integer),
                  !.float_coupons = Set(RSub(pending, RInt(integer)))]

\* the object Bonds.__init__ builds around the enriched dict c, held as d
newBond(c, d, nominal_value, market_rate) ==
    [nominal_value |-> nominal_value,
     coupons |-> d,
     market_rate |-> market_rate,
     passed_units |-> RMul(RInt(c.delta_periods), RSub(One, c.float_coupons[1])),
     pending_units |-> RMul(c.float_coupons[1], RInt(c.delta_periods)),
     lsp |-> Unset, dirty_price |-> Unset, delayed_interest |-> Unset,
     clean_price |-> Unset, duration |-> Unset]

\* the per-period market rate delta_periods * market_rate / 360
periodRate(b, c) ==
    RDiv(RMul(RInt(c.delta_periods), b.market_rate), RInt(360))

RECURSIVE SumSeq(_, _)
SumSeq(s, k) == IF k = 0 THEN Zero ELSE RAdd(SumSeq(s, k - 1), s[k])

\* Bonds.dirtyPrice: present_value_list
presentValueList(b, c) ==
    LET n == c.integer_coupons[1]
    IN  [j \in 1..n |->
            presetValue(IF j # n THEN c.value[1]
                        ELSE RAdd(c.value[1], b.nominal_value),
                        periodRate(b, c), j)]

\* dirtyPrice, were the coupon of the running period never added
dirtyPriceOfNoStub(lsp, c) == SumSeq(lsp, Len(lsp))

\* Bonds.dirtyPrice: the value returned, given present_value_list
dirtyPriceOf(lsp, c) ==
    LET present_value == SumSeq(lsp, Len(lsp))
    IN  IF c.float_coupons[1] = Zero THEN present_value
        ELSE RAdd(present_value, c.value[1])

\* Bonds.dirtyPrice: the value returned
dirtyPriceReturn(b, c) == dirtyPriceOf(presentValueList(b, c), c)

\* Bonds.dirtyPrice: the object afterwards
dirtyPriceState(b, c) == [b EXCEPT !.lsp = Set(presentValueList(b, c))]

\* Bonds.cleanPrice: the object afterwards
cleanPriceState(b, c) ==
    LET lsp == presentValueList(b, c)
        dirty == dirtyPriceOf(lsp, c)
        b1 == [b EXCEPT !.lsp = Set(lsp), !.dirty_price = Set(dirty)]
        value_at_passed ==
            RDiv(dirty, RPowFrac(RAdd(One, periodRate(b, c)),
                                 RDiv(b.pending_units, RInt(c.delta_periods))))
        delayed == RDiv(RMul(RMul(b.nominal_value, c.interest_rate),
                             b.passed_units), RInt(360))
    IN  IF c.float_coupons[1] = Zero THEN b1
        ELSE [b1 EXCEPT !.delayed_interest = Set(delayed),
                        !.clean_price = Set(RSub(value_at_passed, delayed))]

\* Bonds.cleanPrice: the value returned, given the object afterwards
cleanPriceOf(b2, c) ==
    IF c.float_coupons[1] = Zero THEN b2.dirty_price[1] ELSE b2.clean_price[1]

\* Bonds.cleanPrice: the value returned
cleanPriceReturn(b, c) == cleanPriceOf(cleanPriceState(b, c), c)

\* Bonds.getDuration: the loop over self.lsp
RECURSIVE weighted(_, _, _)
weighted(lsp, delta, k) ==
    IF k = 0 THEN Zero
    ELSE RAdd(weighted(lsp, delta, k - 1),
              RDiv(RMul(RInt(k * delta), lsp[k]), RInt(360)))

\* Bonds.getDuration: the value returned or the exception raised, and the
\* object afterwards
getDurationOutcome(b, c) ==
    LET b2 == cleanPriceState(b, c)
        clean == cleanPriceOf(b2, c)
        d == RDiv(weighted(b.lsp[1], c.delta_periods, Len(b.lsp[1])), clean)
    IN  IF b.lsp = Unset THEN [ret |-> AttributeError, obj |-> b]
        ELSE IF clean = Zero THEN [ret |-> ZeroDivisionError, obj |-> b2]
        ELSE [ret |-> Ok(d), obj |-> [b2 EXCEPT !.duration = Set(d)]]

getDurationReturn(b, c) == getDurationOutcome(b, c).ret

getDurationState(b, c) == getDurationOutcome(b, c).obj

\* Bonds.getSensibility: the value returned, or the exception raised
getSensibilityReturn(b, c) ==
    LET r == getDurationReturn(b, c)
    IN  IF r[1] # "ok" THEN r
        ELSE Ok(RDiv(r[2], RAdd(One, b.market_rate)))

BondInit ==
    /\ coupon_dicts = InitialDicts
    /\ bonds = <<>>

\* -------------------------------------------------------- Bonds: actions
bondFrame == UNCHANGED <<debtVars, rateVars>>

\* Bonds(nominal_value, coupons, market_rate, time2maturity)
BondsInit ==
    /\ Len(bonds) < MaxBonds
    /\ \E nominal_value \in Nominals, d \in DictIds,
          market_rate \in MarketRates, time2maturity \in Times :
          LET c == enrich(coupon_dicts[d], nominal_value, time2maturity)
          IN  /\ coupon_dicts' = [coupon_dicts EXCEPT ![d] = c]
              /\ bonds' = Append(bonds, newBond(c, d, nominal_value, market_rate))
    /\ bondFrame

dirtyPrice ==
    /\ \E i \in DOMAIN bonds :
          bonds' = [bonds EXCEPT
                       ![i] = dirtyPriceState(@, coupon_dicts[@.coupons])]
    /\ UNCHANGED coupon_dicts
    /\ bondFrame

cleanPrice ==
    /\ \E i \in DOMAIN bonds :
          bonds' = [bonds EXCEPT
                       ![i] = cleanPriceState(@, coupon_dicts[@.coupons])]
    /\ UNCHANGED coupon_dicts
    /\ bondFrame

getDuration ==
    /\ \E i \in DOMAIN bonds :
          bonds' = [bonds EXCEPT
                       ![i] = getDurationState(@, coupon_dicts[@.coupons])]
    /\ UNCHANGED coupon_dicts
    /\ bondFrame

\* getSensibility changes the object exactly as the getDuration it calls
getSensibility ==
    /\ \E i \in DOMAIN bonds :
          bonds' = [bonds EXCEPT
                       ![i] = getDurationState(@, coupon_dicts[@.coupons])]
    /\ UNCHANGED coupon_dicts
    /\ bondFrame

\* ------------------------------------------------ interest_rate objects
NameError == <<"NameError">>
Inf == <<"inf">>

\* interest_rate.cap_options
cap_options ==
    ("daily" :> 360) @@ ("1m" :> 12) @@ ("2m" :> 6) @@ ("3m" :> 4) @@
    ("4m" :> 3) @@ ("6m" :> 2) @@ ("1y" :> 1) @@ ("cont" :> Inf)

\* the names the module defines at top level
moduleNames ==
    {"np", "datetime", "date", "toDate", "futureValue", "contFutureValue",
     "presetValue", "contPresentValue", "annualInterest",
     "equivalentAnnualInterest", "equivalentRate", "realRate",
     "getRiskFreeRate", "interest_rate", "debt", "Bonds"}

\* interest_rate.annualRate on an object whose reference_rate is ref, for a
\* key cap_desc of cap_options: the value returned or the exception raised
annualRateOutcome(ref, cap_desc) ==
    LET aux == cap_options[cap_desc]
    IN  IF cap_desc = "cont"
        THEN IF "contEquivalentRate" \in moduleNames
             THEN Ok(<<"contEquivalentRate", ref.rate, ref.cap>>)
             ELSE NameError
        ELSE Ok(equivalentRate(ref.rate, ref.cap, aux))

\* interest_rate.rate for a key cap_desc of cap_options
rateOutcome(ref, cap_desc) ==
    LET aux == cap_options[cap_desc]
        annual == annualRateOutcome(ref, cap_desc)
    IN  IF cap_desc = "cont" THEN annual
        ELSE IF annual[1] # "ok" THEN annual
        ELSE Ok(RDiv(annual[2], RInt(aux)))

\* the compounding frequencies and the rates the objects are built with:
\* a growth factor g per period of the finest frequency, quoted at f
Frequencies == {1, 2, 4}
GrowthFactors == {Rat(1, 2), One, Rat(3, 2), RInt(2), RInt(3)}
RateInputs ==
    {[rate |-> RMul(RInt(f), RSub(RPow(g, 4 \div f), One)), cap |-> f] :
        g \in GrowthFactors, f \in Frequencies}

\* no interest_rate object is built beside the ledger's own
RateNone == rate_objects = <<>>

\* interest_rate(rate)
RateInit == \E ref \in RateInputs : rate_objects = <<ref>>

\* interest_rate({'rate': i.annualRate(new_cap), 'cap': new_cap}), i being
\* the object built last
interestRateOfAnnualRate ==
    /\ rate_objects # <<>>
    /\ Len(rate_objects) <= MaxConversions
    /\ \E new_cap \in Frequencies :
          LET i == rate_objects[Len(rate_objects)]
          IN  /\ hasRoot(RAdd(One, RDiv(i.rate, RInt(i.cap))),
                         Rat(i.cap, new_cap))
              /\ rate_objects' =
                     Append(rate_objects,
                            [rate |-> annualRate(i, new_cap), cap |-> new_cap])
    /\ UNCHANGED <<debtVars, bondVars>>

\* --------------------------------------------------------- debt.simulate
\* the attributes an instance of debt has, its class's included
debtAttributes ==
    {"desc", "rate_options", "cap_options", "cetes", "payments",
     "invalid_payments", "initial_date", "final_date", "actual_date",
     "initial_date_string", "final_date_string", "capital", "reference_rate",
     "i", "final_capital", "discount_rate", "daysToGo", "diffDates",
     "discountRate", "registerPayment", "invalidPayments",
     "deleteInvalidPayment", "resetInvalidPayments", "resetPayments",
     "actualFinalDebt", "actualPresentDebt", "payDebt", "simulate",
     "simulateYears", "simulateMonths", "status", "summary", "save",
     "update", "debt_status"}

\* debt.simulate(periods, cap_desc, initial_capital): the value returned or
\* the exception raised; initial_capital is Unset for the default ''
simulateOutcome(periods, cap_desc, initial_capital) ==
    LET initial == IF initial_capital = Unset THEN capital
                   ELSE initial_capital[1]
    IN  IF "rate" \notin debtAttributes THEN AttributeError
        ELSE Ok(futureValue(initial, rate(reference_rate, cap_desc), periods))

\* ------------------------------------------------------- specifications
\* the ledger alone: no Bonds object is ever built
Init == DebtInit /\ BondInit /\ RateNone

Next ==
    \/ Tick
    \/ registerPayment
    \/ invalidPayments
    \/ deleteInvalidPayment
    \/ resetInvalidPayments
    \/ resetPayments
    \/ status

Spec == Init /\ [][Next]_vars

\* the payment operations alone, on a ledger built on day 0: the clock
\* stands still and status() is not called
InitLedger == Init /\ now = 0

NextLedger ==
    \/ registerPayment
    \/ invalidPayments
    \/ deleteInvalidPayment
    \/ resetInvalidPayments
    \/ resetPayments

SpecLedger == InitLedger /\ [][NextLedger]_vars

\* the payment operations without resetPayments
NextNoReset ==
    \/ registerPayment
    \/ invalidPayments
    \/ deleteInvalidPayment
    \/ resetInvalidPayments

SpecNoReset == InitLedger /\ [][NextNoReset]_vars

\* the bonds alone: one ledger, never touched
InitBond ==
    /\ BondInit
    /\ RateNone
    /\ DebtInit
    /\ now = 0
    /\ final_capital = One
    /\ daily_discount = One

NextBond ==
    \/ BondsInit
    \/ dirtyPrice
    \/ cleanPrice
    \/ getDuration
    \/ getSensibility

SpecBond == InitBond /\ [][NextBond]_vars

\* one bond alone
BondsInitFirst == bonds = <<>> /\ BondsInit

NextOneBond ==
    \/ BondsInitFirst
    \/ dirtyPrice
    \/ cleanPrice
    \/ getDuration
    \/ getSensibility

SpecOneBond == InitBond /\ [][NextOneBond]_vars

\* the interest_rate objects alone: one ledger, never touched, and no bond
InitRate ==
    /\ RateInit
    /\ BondInit
    /\ DebtInit
    /\ now = 0
    /\ final_capital = One
    /\ daily_discount = One

NextRate == interestRateOfAnnualRate

SpecRate == InitRate /\ [][NextRate]_vars

\* ================================================================ claims
StatusValues == {"Done.", "Overdue.", "Active."}

\* the future value at maturity of payment p at the daily discount rate
valueAtMaturity(p) ==
    RMul(p.amount, RPow(RAdd(One, daily_discount), final_date - p.date))

RECURSIVE SumOver(_, _)
SumOver(pays, set) ==
    IF set = {} THEN Zero
    ELSE LET k == CHOOSE k \in set : TRUE
         IN  RAdd(valueAtMaturity(pays[k]), SumOver(pays, set \ {k}))

\* S: the sum over exactly the payments whose valid flag is true
validSum(pays) == SumOver(pays, {k \in DOMAIN pays : pays[k].valid})

Max0(x) == IF RLt(x, Zero) THEN Zero ELSE x

AllValid(pays) == \A k \in DOMAIN pays : pays[k].valid

\* C1: in every reachable ledger state the outstanding balance is
\* max(0, final_capital - S), S the sum of the future values at maturity of
\* the payments whose valid flag is true; it is never negative.
C1_BalanceIsFlooredNet ==
    /\ actualFinalDebt = Max0(RSub(final_capital, validSum(payments)))
    /\ RLe(Zero, actualFinalDebt)

\* C1 witness: a valid and an invalid payment, and a balance strictly
\* between zero and final_capital.
C1_Witness ==
    /\ \E k \in DOMAIN payments : payments[k].valid
    /\ \E k \in DOMAIN payments : ~payments[k].valid
    /\ RLt(Zero, actualFinalDebt)
    /\ RLt(actualFinalDebt, final_capital)

\* the status the claim C2 gives a balance and a day count
classify(debt, days) ==
    IF debt = Zero THEN "Done."
    ELSE IF days < 0 THEN "Overdue."
    ELSE "Active."

\* C2: in every ledger state status() returns Done when the balance is 0,
\* otherwise Overdue when the days to maturity are negative, otherwise
\* Active, the maturity day itself included.
C2_StatusClassifies ==
    statusReturn(debt_status, actualFinalDebt, daysToGoDefault)
        = classify(actualFinalDebt, daysToGoDefault)

\* C3: without resetPayments no payment is ever removed or renumbered, and
\* every registration appends one valid payment whose id is the previous
\* id plus one (1 for the first), greater than every id issued before.
C3_IdsStrictlyIncrease ==
    [][/\ Len(payments') >= Len(payments)
       /\ \A k \in DOMAIN payments : payments'[k].id = payments[k].id
       /\ Len(payments') > Len(payments) =>
             /\ Len(payments') = Len(payments) + 1
             /\ payments'[Len(payments')].valid
             /\ payments'[Len(payments')].id =
                    IF Len(payments) = 0 THEN 1
                    ELSE payments[Len(payments)].id + 1
             /\ \A k \in DOMAIN payments :
                    payments'[Len(payments')].id > payments[k].id]_vars

\* C3 witness: a payment registered after an earlier one was invalidated.
C3_Witness ==
    /\ Len(payments) = MaxPayments
    /\ ~payments[1].valid
    /\ payments[Len(payments)].valid
    /\ payments[Len(payments)].id = MaxPayments

\* C4: a call of invalidatePayment(id) leaves the valid flag of every
\* payment with another id as it was, so an earlier call with an id no
\* payment had cannot reach a payment registered later.
C4_InvalidateTouchesOnlyItsId ==
    [][\A id \in Ids :
          (/\ invalidPayments
           /\ invalid_payments' = Append(invalid_payments, id)) =>
              \A k \in DOMAIN payments :
                 payments[k].id # id => payments'[k].valid = payments[k].valid]_vars

\* the orders in which n payments can be visited
Orders ==
    [n \in 0..(MaxPayments + 1) |->
        {o \in [1..n -> 1..n] : \A i, j \in 1..n : o[i] = o[j] => i = j}]

\* invalidPayments and deleteInvalidPayment called on the k-th payment of led
invalidateAt(led, k) ==
    invalidPaymentsOp(led.payments, led.invalid_payments, led.payments[k].id)

restoreAt(led, k) ==
    deleteInvalidPaymentOp(led.payments, led.invalid_payments,
                           led.payments[k].id)

\* invalidPayments called on the payments o[1], ..., o[k] of led
RECURSIVE invalidateAll(_, _, _)
invalidateAll(led, o, k) ==
    IF k = 0 THEN led ELSE invalidateAt(invalidateAll(led, o, k - 1), o[k])

\* deleteInvalidPayment called on the payments o[1], ..., o[k] of led
RECURSIVE restoreAll(_, _, _)
restoreAll(led, o, k) ==
    IF k = 0 THEN led ELSE restoreAt(restoreAll(led, o, k - 1), o[k])

\* C5: from every reachable ledger whose payments are all valid,
\* invalidating every payment (in any order) makes the balance
\* final_capital, and restoring every one of them (in any order) brings
\* every payment and the balance back to what they were.
C5_InvalidateRestoreInverse ==
    AllValid(payments) =>
        LET n == Len(payments)
            led == [payments |-> payments,
                    invalid_payments |-> invalid_payments]
            debt == actualFinalDebt
        IN  \A o1 \in Orders[n] :
               LET off == invalidateAll(led, o1, n)
               IN  /\ \A k \in 1..n : ~off.payments[k].valid
                   /\ actualFinalDebtOf(off.payments) = final_capital
                   /\ \A o2 \in Orders[n] :
                          LET on == restoreAll(off, o2, n)
                          IN  /\ on.payments = payments
                              /\ actualFinalDebtOf(on.payments) = debt

\* C5 witness: two valid payments that lower the balance, on a ledger that
\* has seen invalidations.
C5_Witness ==
    /\ Len(payments) = 2
    /\ AllValid(payments)
    /\ invalid_payments # <<>>
    /\ RLt(actualFinalDebt, final_capital)

\* C6: after resetPayments() the payment sequence and the invalidation set
\* are both empty.
C6_ResetClearsEverything ==
    [][resetPayments => (payments' = <<>> /\ invalid_payments' = <<>>)]_vars

\* C7: once the current date has passed the maturity date, daysToMaturity()
\* is negative and, the balance being positive, status() reports Overdue.
C7_QueriesUseCurrentClock ==
    now > final_date =>
        /\ daysToGoDefault < 0
        /\ RLt(Zero, actualFinalDebt) =>
              statusReturn(debt_status, actualFinalDebt, daysToGoDefault)
                  = "Overdue."

\* C8: status() always yields one of the three values, and the value does
\* not depend on what an earlier status() left behind.
C8_StatusHistoryIndependent ==
    \A h \in StatusValues \cup {"unset"} :
        /\ statusReturn(h, actualFinalDebt, daysToGoDefault) \in StatusValues
        /\ statusReturn(h, actualFinalDebt, daysToGoDefault)
              = statusReturn(debt_status, actualFinalDebt, daysToGoDefault)

\* C9: whenever the future-valued sum of the valid payments reaches or
\* exceeds final_capital, the balance is exactly 0 and status() is Done,
\* whatever the day the days to maturity are counted from (before, on or
\* after maturity) and whatever an earlier status() left behind.
C9_PaidOffIsDone ==
    RLe(final_capital, validSum(payments)) =>
        LET debt == actualFinalDebt
        IN  /\ debt = Zero
            /\ \A ref_date \in Days, h \in StatusValues \cup {"unset"} :
                  statusReturn(h, debt, daysToGo(ref_date)) = "Done."

\* C9 witness: two valid payments worth together exactly final_capital at
\* maturity, neither enough alone.
C9_Witness ==
    /\ Len(payments) = 2
    /\ AllValid(payments)
    /\ validSum(payments) = final_capital
    /\ RLt(valueAtMaturity(payments[1]), final_capital)
    /\ RLt(valueAtMaturity(payments[2]), final_capital)

\* C10: on every bond with a nonzero clean price, in any state (directly
\* after construction included), duration() returns the time-weighted sum
\* of the discounted cash flows of dirtyPrice() divided by cleanPrice(),
\* and sensitivity() that value divided by 1 + market_rate.
C10_DurationInAnyState ==
    \A i \in DOMAIN bonds :
        LET b == bonds[i]
            c == coupon_dicts[b.coupons]
            flows == presentValueList(b, c)
            clean == cleanPriceReturn(b, c)
            d == RDiv(weighted(flows, c.delta_periods, Len(flows)), clean)
        IN  clean # Zero =>
               /\ getDurationReturn(b, c) = Ok(d)
               /\ getSensibilityReturn(b, c)
                     = Ok(RDiv(d, RAdd(One, b.market_rate)))

\* C11: on every ledger simulate(periods, cap_desc, initial_capital)
\* completes and returns futureValue(P, r, periods), P the override when
\* one is given and the ledger's capital otherwise, r the contracted rate's
\* periodic rate at cap_desc; the payments play no part in it.
C11_SimulateReturnsGrowth ==
    \A periods \in 0..MaxDay, initial_capital \in {Unset, Set(RInt(2))} :
        LET P == IF initial_capital = Unset THEN capital
                 ELSE initial_capital[1]
        IN  simulateOutcome(periods, 360, initial_capital)
                = Ok(futureValue(P, rate(reference_rate, 360), periods))

\* C12: on every interest_rate object annualRate('cont') and rate('cont')
\* yield a value, not a failure, and rate('cont') is the value of
\* annualRate('cont'), not divided by a frequency.
C12_ContinuousYieldsValue ==
    \A k \in DOMAIN rate_objects :
        LET annual == annualRateOutcome(rate_objects[k], "cont")
        IN  /\ annual[1] = "ok"
            /\ rateOutcome(rate_objects[k], "cont") = annual

\* the sum of the first k of n cash flows, each coupon except the n-th,
\* which is coupon + nominal, the j-th discounted j periods at rate r
RECURSIVE discountedFlows(_, _, _, _, _)
discountedFlows(coupon, nominal, r, n, k) ==
    IF k = 0 THEN Zero
    ELSE RAdd(discountedFlows(coupon, nominal, r, n, k - 1),
              RDiv(IF k = n THEN RAdd(coupon, nominal) ELSE coupon,
                   RPowNat(RAdd(One, r), k)))

\* C13: with n = floor(days_to_maturity / coupon_period_days), dirtyPrice()
\* discounts exactly n cash flows at periods 1..n, each the coupon except
\* the n-th, which is coupon + nominal; when days_to_maturity is a multiple
\* of the coupon period dirtyPrice() is that sum and cleanPrice() equals
\* it, otherwise dirtyPrice() is that sum plus one undiscounted coupon (the
\* coupon alone when days_to_maturity is less than one period).
C13_StubRule ==
    \A i \in DOMAIN bonds :
        LET b == bonds[i]
            c == coupon_dicts[b.coupons]
            delta == c.delta_periods
            days == IntOf(RMul(c.pending_coupons[1], RInt(delta)))
            n == days \div delta
            coupon == c.value[1]
            r == RDiv(RMul(RInt(delta), b.market_rate), RInt(360))
            sum == discountedFlows(coupon, b.nominal_value, r, n, n)
            flows == presentValueList(b, c)
            dirty == dirtyPriceOf(flows, c)
        IN  /\ Len(flows) = n
            /\ \A j \in 1..n :
                  flows[j] = RDiv(IF j = n THEN RAdd(coupon, b.nominal_value)
                                  ELSE coupon,
                                  RPowNat(RAdd(One, r), j))
            /\ b.lsp # Unset => Len(b.lsp[1]) = n
            /\ IF days % delta = 0
               THEN /\ dirty = sum
                    /\ cleanPriceReturn(b, c) = dirty
               ELSE /\ dirty = RAdd(sum, coupon)
                    /\ days < delta => dirty = coupon

\* C13 witness: a bond with one whole coupon period and a stub ahead of it,
\* priced by cleanPrice().
C13_Witness ==
    \E i \in DOMAIN bonds :
        LET c == coupon_dicts[bonds[i].coupons]
        IN  /\ c.integer_coupons[1] = 1
            /\ c.float_coupons[1] # Zero
            /\ bonds[i].lsp # Unset
            /\ bonds[i].clean_price # Unset

hasId(pays, id) == \E k \in DOMAIN pays : pays[k].id = id

\* C14: invalidPayments(id) and deleteInvalidPayment(id) with an id no
\* payment has leave every valid flag and the balance as they were; either
\* one applied twice with the same id leaves what applying it once leaves;
\* and one deleteInvalidPayment(id) after any number of invalidPayments(id)
\* leaves the payment valid and the id out of the invalidation list.
C14_UnknownIdAndIdempotent ==
    \A id \in Ids :
        LET inv1 == invalidPaymentsOp(payments, invalid_payments, id)
            inv2 == invalidPaymentsOp(inv1.payments, inv1.invalid_payments, id)
            res1 == deleteInvalidPaymentOp(payments, invalid_payments, id)
            res2 == deleteInvalidPaymentOp(res1.payments,
                                           res1.invalid_payments, id)
            undo == deleteInvalidPaymentOp(inv2.payments,
                                           inv2.invalid_payments, id)
        IN  /\ ~hasId(payments, id) =>
                  /\ inv1.payments = payments
                  /\ res1.payments = payments
                  /\ actualFinalDebtOf(inv1.payments) = actualFinalDebt
                  /\ actualFinalDebtOf(res1.payments) = actualFinalDebt
            /\ inv2.payments = inv1.payments
            /\ res2.payments = res1.payments
            /\ \A k \in DOMAIN undo.payments :
                  undo.payments[k].id = id => undo.payments[k].valid
            /\ id \notin Range(undo.invalid_payments)

\* C15: a ledger with no payments (fresh, or after resetPayments) has the
\* balance final_capital, and its status() is Active whenever the days to
\* maturity are more than 0, whatever an earlier status() left behind.
C15_EmptyLedgerIsActive ==
    payments = <<>> =>
        LET debt == actualFinalDebt
        IN  /\ debt = final_capital
            /\ \A ref_date \in Days, h \in StatusValues \cup {"unset"} :
                  daysToGo(ref_date) > 0 =>
                      statusReturn(h, debt, daysToGo(ref_date)) = "Active."

\* C15 witness: a ledger emptied of its payments before maturity, its
\* invalidation list still full.
C15_Witness ==
    /\ payments = <<>>
    /\ Len(invalid_payments) = MaxInvalid
    /\ daysToGoDefault > 0

\* C16: a rate converted from frequency f1 to f2 and back to f1 is the
\* rate it was: equivalentRate(equivalentRate(r, f1, f2), f2, f1) = r.
C16_EquivalentRateRoundTrip ==
    \A k \in DOMAIN rate_objects :
        (k + 2 \in DOMAIN rate_objects
            /\ rate_objects[k + 2].cap = rate_objects[k].cap) =>
                rate_objects[k + 2].rate = rate_objects[k].rate

\* C16 witness: a nonzero rate quoted at one frequency, converted to a
\* finer one with a fractional exponent, and converted back.
C16_Witness ==
    /\ Len(rate_objects) = 3
    /\ rate_objects[1].cap < rate_objects[2].cap
    /\ rate_objects[3].cap = rate_objects[1].cap
    /\ rate_objects[1].rate # Zero
    /\ rate_objects[2].rate # rate_objects[1].rate

\* C17: after any sequence of registerPayment, invalidPayments,
\* deleteInvalidPayment and resetInvalidPayments a payment's valid flag is
\* false exactly when its id is in the invalidation list.
C17_FlagsAgreeWithList ==
    \A k \in DOMAIN payments :
        ~payments[k].valid <=> payments[k].id \in Range(invalid_payments)

\* the keys the constructor derives
derived(c) ==
    <<c.value, c.pending_coupons, c.integer_coupons, c.float_coupons>>

\* C18: constructing a Bonds object changes neither the derived values
\* (coupon value, pending, integer and fractional coupon counts) nor the
\* dirtyPrice() and cleanPrice() of a bond constructed before it, the two
\* sharing their coupons dict or not.
C18_BondsAreIsolated ==
    [][BondsInit =>
          \A i \in DOMAIN bonds :
              LET b == bonds[i]
                  c == coupon_dicts[b.coupons]
                  c2 == coupon_dicts'[b.coupons]
              IN  /\ derived(c2) = derived(c)
                  /\ dirtyPriceReturn(bonds'[i], c2) = dirtyPriceReturn(b, c)
                  /\ cleanPriceReturn(bonds'[i], c2)
                        = cleanPriceReturn(b, c)]_vars

\* C19: with final_capital >= 0, every amount >= 0 and a daily discount
\* rate > -1, the balance is between 0 and final_capital in every state;
\* from every state, registerPayment and deleteInvalidPayment never
\* increase it and invalidPayments never decreases it.
C19_BalanceBoundedMonotone ==
    LET debt == actualFinalDebt
    IN  /\ RLe(Zero, debt)
        /\ RLe(debt, final_capital)
        /\ \A amount \in Amounts, date \in Days :
              RLe(actualFinalDebtOf(registerPaymentOp(payments, amount, date)),
                  debt)
        /\ \A id \in Ids :
              /\ RLe(actualFinalDebtOf(
                         deleteInvalidPaymentOp(payments, invalid_payments,
                                                id).payments),
                     debt)
              /\ RLe(debt,
                     actualFinalDebtOf(
                         invalidPaymentsOp(payments, invalid_payments,
                                           id).payments))

\* C19 witness: the valid payments are worth more at maturity than
\* final_capital, beside a payment that was invalidated.
C19_Witness ==
    /\ \E k \in DOMAIN payments : ~payments[k].valid
    /\ RLt(final_capital, validSum(payments))
    /\ actualFinalDebt = Zero

====
